---- MODULE Spec2Model ----
(***************************************************************************)
(* Alerta-Anemia-MIDIS: the hybrid anemia-risk assessment of               *)
(* src/nuevo_proyecto_anemia.py (a React/Firestore application).           *)
(*                                                                         *)
(* Number representation (exact decimal fixed point):                      *)
(*   hemoglobin         in 1/10000 g/dL  (10.5 g/dL = 105000)               *)
(*   altitude           in metres                                          *)
(*   probabilities      in 1/100         (0.75 = 75)                       *)
(* The source computes in IEEE doubles; every sum modelled here is a sum   *)
(* of short decimals, which the fixed point represents exactly.            *)
(*                                                                         *)
(* A string the code builds or inspects is a sequence of its pieces:       *)
(* `ALTO RIESGO (Alerta Clínica - ${g})` is                                *)
(* <<"ALTO RIESGO", "(Alerta Clínica - ", g, ")">>, so that startsWith and *)
(* includes are computed on the text and not assumed.                      *)
(***************************************************************************)
EXTENDS Integers, Sequences, FiniteSets, TLC

VARIABLES
    call,             \* the last call of a core function: arguments and result
    db,               \* App state db: TRUE once getFirestore has set it
    userId,           \* App state userId (NULL until the auth listener sets it)
    coleccion,        \* the Firestore collection alertas_anemia, in insert order
    hoy,              \* the calendar day new Date() falls on
    pc,               \* handleSubmit: "idle", or "addDoc" while awaiting addDoc
    envio,            \* handleSubmit's locals kept across the await: <<>> or <<locals>>
    error,            \* App state error
    message,          \* App state message
    predictionResult, \* App state predictionResult: <<>> (null) or <<result>>
    sms,              \* the messages handed to mockTwilio.sendSMS
    smsPorConfirmar,  \* sendSMS promises not yet resolved
    alertas,          \* App state alertas: the listener's copy of the collection
    filterStatus,     \* MonitoringView state filterStatus: a set of statuses
    filteredAlerts,   \* MonitoringView state filteredAlerts
    changedStates,    \* MonitoringView state changedStates, in insertion order
    isSaving,         \* MonitoringView state isSaving
    guardado          \* handleSave's locals kept across its awaits: <<>> or <<locals>>

\* The state of MonitoringView and of the listener of the collection.
monVars ==
    <<alertas, filterStatus, filteredAlerts, changedStates, isSaving, guardado>>

appVars ==
    <<db, userId, coleccion, hoy, pc, envio, error, message, predictionResult,
      sms, smsPorConfirmar, monVars>>

vars == <<call, appVars>>

NULL == "null"

NoCall == [fn |-> "none"]

----------------------------------------------------------------------------
(* Input domains                                                           *)

\* Hemoglobin accepted by the form: 5.0 .. 18.0 g/dL in steps of 0.1 (tenths).
HbMin == 50
HbMax == 180
Hemoglobinas == {h * 1000 : h \in HbMin..HbMax}

\* Altitudes of [0, AltitudMax) sampled every AltitudPaso metres, the ends of
\* the range and two altitudes of the region table.
AltitudMax == 10000
AltitudPaso == 1000
Altitudes ==
    {a \in 0..(AltitudMax - 1) : a % AltitudPaso = 0}
        \cup {0, 150, 3820, AltitudMax - 1}

\* Ages in months: the band 6..59, its ends and the two ages just outside.
Edades == {5, 6, 12, 23, 24, 36, 59, 60}

Gravedades == {"SEVERA", "MODERADA", "LEVE", "NO ANÉMICO"}

\* The options of the form's select and radio fields.
Areas == {"Urbana", "Rural"}
NivelesEducacion ==
    {"Secundaria", "Primaria", "Superior Técnica", "Universitaria", "Inicial",
     "Sin Nivel"}
Suplementos == {"No", "Sí"}
\* Household income (soles, steps of 100) around the floor of 1000, and the
\* number of children around 4.
Ingresos == {900, 1000, 1800}
NrosHijos == {3, 4}

\* The attributes predictRiskML reads.
DatosML ==
    [Area : Areas, Nivel_Educacion_Madre : NivelesEducacion,
     Ingreso_Familiar_Soles : Ingresos, Nro_Hijos : NrosHijos,
     Suplemento_Hierro : Suplementos]

Climas == {"FRÍO", "TEMPLADO", "CÁLIDO/HÚMEDO", "CÁLIDO/SECO"}

\* The attributes generarSugerencias reads; ages on both sides of 24 months.
DatosSug ==
    [Suplemento_Hierro : Suplementos, Edad_meses : {23, 24},
     Ingreso_Familiar_Soles : Ingresos, Area : Areas,
     Nivel_Educacion_Madre : NivelesEducacion, Clima : Climas]

\* Math.random() * 0.1, a real of [0, 0.1), at the resolution of 1/100: every
\* other term of the score is a whole number of 1/100, so the fraction dropped
\* changes no comparison with a whole threshold.
Aleatorios == 0..9

----------------------------------------------------------------------------
(* Region tables                                                           *)

REGIONES_PERU ==
    {"LIMA (Metropolitana y Provincia)", "CALLAO (Provincia Constitucional)",
     "PIURA", "LAMBAYEQUE", "LA LIBERTAD", "ICA", "TUMBES", "ÁNCASH (Costa)",
     "HUÁNUCO", "JUNÍN (Andes)", "CUSCO (Andes)", "AYACUCHO", "APURÍMAC",
     "CAJAMARCA", "AREQUIPA", "MOQUEGUA", "TACNA",
     "PUNO (Sierra Alta)", "HUANCAVELICA (Sierra Alta)", "PASCO",
     "LORETO", "AMAZONAS", "SAN MARTÍN", "UCAYALI", "MADRE DE DIOS",
     "OTRO / NO ESPECIFICADO"}

altitudes ==
    [r \in REGIONES_PERU |->
        CASE r = "PUNO (Sierra Alta)" -> 3820
          [] r = "HUANCAVELICA (Sierra Alta)" -> 3676
          [] r = "PASCO" -> 4330
          [] r = "JUNÍN (Andes)" -> 3271
          [] r = "CUSCO (Andes)" -> 3399
          [] r = "AYACUCHO" -> 2761
          [] r = "APURÍMAC" -> 2900
          [] r = "CAJAMARCA" -> 2750
          [] r = "AREQUIPA" -> 2335
          [] r = "MOQUEGUA" -> 1410
          [] r = "TACNA" -> 562
          [] r = "HUÁNUCO" -> 1894
          [] r = "ÁNCASH (Costa)" -> 50
          [] r = "LIMA (Metropolitana y Provincia)" -> 150
          [] r = "CALLAO (Provincia Constitucional)" -> 10
          [] r = "PIURA" -> 30
          [] r = "LAMBAYEQUE" -> 50
          [] r = "LA LIBERTAD" -> 150
          [] r = "ICA" -> 406
          [] r = "TUMBES" -> 50
          [] r = "LORETO" -> 106
          [] r = "AMAZONAS" -> 500
          [] r = "SAN MARTÍN" -> 500
          [] r = "UCAYALI" -> 154
          [] r = "MADRE DE DIOS" -> 200
          [] r = "OTRO / NO ESPECIFICADO" -> 150]

\* Mutant: no default, a region without an entry is at sea level.
getAltitudPorRegion_sinDefecto(region) ==
    IF region \in DOMAIN altitudes THEN altitudes[region] ELSE 0

\* altitudes[region] || 150: a region without an entry (and an entry of 0,
\* which the table does not hold) gives 150.
getAltitudPorRegion(region) ==
    IF region \in DOMAIN altitudes /\ altitudes[region] # 0
    THEN altitudes[region]
    ELSE 150

\* region.toUpperCase().includes(...), evaluated on the names of the table:
\* the regions whose upper-cased name contains one of the words tested.
getClimaPorRegion(region) ==
    IF region \in {"PUNO (Sierra Alta)", "HUANCAVELICA (Sierra Alta)", "PASCO"}
    THEN "FRÍO"
    ELSE IF region \in {"JUNÍN (Andes)", "CUSCO (Andes)", "AYACUCHO",
                        "CAJAMARCA"}
    THEN "TEMPLADO"
    ELSE IF region \in {"LORETO", "UCAYALI", "AMAZONAS", "MADRE DE DIOS",
                        "SAN MARTÍN"}
    THEN "CÁLIDO/HÚMEDO"
    ELSE "CÁLIDO/SECO"

----------------------------------------------------------------------------
(* clasificarAnemiaClinica                                                 *)

\* Mutant: the correction counted from 1000 m upward (negative below it).
correccionAlt_desdeMil(altitud_m) == 3 * (altitud_m - 1000)

\* 0.3 * (altitud_m / 1000) g/dL = 3 * altitud_m in 1/10000 g/dL.
correccionAlt(altitud_m) == 3 * altitud_m

umbralAnemia == 110000
umbralModerada == 100000
umbralSevera == 70000

\* Mutant: the comparisons closed on the upper end (<= for <).
gravedadDe_cerrado(hbCorregida) ==
    IF hbCorregida <= umbralSevera THEN "SEVERA"
    ELSE IF hbCorregida <= umbralModerada THEN "MODERADA"
    ELSE IF hbCorregida <= umbralAnemia THEN "LEVE"
    ELSE "NO ANÉMICO"

\* The if / else-if chain on hbCorregida (source lines 87-90).
gravedadDe(hbCorregida) ==
    IF hbCorregida < umbralSevera THEN "SEVERA"
    ELSE IF hbCorregida < umbralModerada THEN "MODERADA"
    ELSE IF hbCorregida < umbralAnemia THEN "LEVE"
    ELSE "NO ANÉMICO"

\* Mutant: the other sign convention, the correction subtracted.
clasificarAnemiaClinica_resta(hemoglobina, edad_meses, altitud_m) ==
    LET hbCorregida == hemoglobina - correccionAlt(altitud_m)
    IN  [gravedad |-> gravedadDe(hbCorregida),
         umbralAnemia |-> umbralAnemia,
         hbCorregida |-> hbCorregida,
         correccionAlt |-> correccionAlt(altitud_m)]

\* Mutant: a tier of its own for an age outside the band of 6 to 59 months.
clasificarAnemiaClinica_fueraDeRango(hemoglobina, edad_meses, altitud_m) ==
    LET hbCorregida == hemoglobina + correccionAlt(altitud_m)
    IN  [gravedad |-> IF edad_meses >= 6 /\ edad_meses <= 59
                      THEN gravedadDe(hbCorregida) ELSE "FUERA DE RANGO",
         umbralAnemia |-> umbralAnemia,
         hbCorregida |-> hbCorregida,
         correccionAlt |-> correccionAlt(altitud_m)]

clasificarAnemiaClinica(hemoglobina, edad_meses, altitud_m) ==
    LET hbCorregida == hemoglobina + correccionAlt(altitud_m)
    IN  [gravedad |-> gravedadDe(hbCorregida),
         umbralAnemia |-> umbralAnemia,
         hbCorregida |-> hbCorregida,
         correccionAlt |-> correccionAlt(altitud_m)]

----------------------------------------------------------------------------
(* predictRiskML                                                           *)

Min(a, b) == IF a < b THEN a ELSE b
Max(a, b) == IF a > b THEN a ELSE b

\* The weighted sum of the contextual factors (source lines 97-104).
probFactores(data) ==
    10
    + (IF data.Area = "Rural" THEN 15 ELSE 0)
    + (IF data.Nivel_Educacion_Madre \in {"Sin Nivel", "Inicial", "Primaria"}
       THEN 20 ELSE 0)
    + (IF data.Ingreso_Familiar_Soles < 1000 THEN 25 ELSE 0)
    + (IF data.Nro_Hijos >= 4 THEN 10 ELSE 0)
    + (IF data.Suplemento_Hierro = "No" THEN 15 ELSE 0)

\* Mutant: no floor for LEVE.
probBaseDe_sinPisoLeve(data, gravedad_anemia) ==
    IF gravedad_anemia = "SEVERA" THEN 99
    ELSE IF gravedad_anemia = "MODERADA" THEN Max(probFactores(data), 75)
    ELSE probFactores(data)

\* Mutant: no floor for MODERADA.
probBaseDe_sinPisoModerada(data, gravedad_anemia) ==
    IF gravedad_anemia = "SEVERA" THEN 99
    ELSE IF gravedad_anemia = "LEVE" THEN Max(probFactores(data), 45)
    ELSE probFactores(data)

\* The adjustment by clinical tier (source lines 107-109).
probBaseDe(data, gravedad_anemia) ==
    IF gravedad_anemia = "SEVERA" THEN 99
    ELSE IF gravedad_anemia = "MODERADA" THEN Max(probFactores(data), 75)
    ELSE IF gravedad_anemia = "LEVE" THEN Max(probFactores(data), 45)
    ELSE probFactores(data)

\* Mutant: the jittered score returned without the cap of 0.99.
probRiesgoDe_sinTope(probBase, aleatorio) == probBase + (aleatorio - 5)

\* Math.min(0.99, probBase + (Math.random() * 0.1 - 0.05)) (source line 111).
probRiesgoDe(probBase, aleatorio) == Min(99, probBase + (aleatorio - 5))

\* The thresholding of the score (source lines 113-116).
resultadoMLDe(probRiesgo) ==
    IF probRiesgo >= 70 THEN <<"ALTO RIESGO", " (Predicción ML)">>
    ELSE IF probRiesgo >= 40 THEN <<"MEDIO RIESGO", " (Predicción ML)">>
    ELSE <<"BAJO RIESGO", " (Predicción ML)">>

\* aleatorio is the value Math.random() * 0.1 takes in this call.
predictRiskML(data, gravedad_anemia, aleatorio) ==
    LET probRiesgo == probRiesgoDe(probBaseDe(data, gravedad_anemia), aleatorio)
    IN  [probRiesgo |-> probRiesgo, resultadoML |-> resultadoMLDe(probRiesgo)]

\* The three labels predictRiskML can return.
ResultadosML == {resultadoMLDe(p) : p \in {39, 40, 70}}

----------------------------------------------------------------------------
(* The hybrid verdict of handleSubmit                                      *)

\* s.startsWith(t), for t one of the pieces a text begins with.
startsWith(s, t) == Len(s) >= 1 /\ s[1] = t

\* Mutant: the clinical override applied to SEVERA only.
resultadoFinalDe_soloSevera(gravedadAnemia, resultadoML) ==
    IF gravedadAnemia = "SEVERA"
    THEN <<"ALTO RIESGO", " (Alerta Clínica - ", gravedadAnemia, ")">>
    ELSE IF startsWith(resultadoML, "ALTO RIESGO")
    THEN <<"ALTO RIESGO", " (Predicción ML - Anemia ", gravedadAnemia, ")">>
    ELSE resultadoML

\* Mutant: the model-driven branch taken for every label of the scorer.
resultadoFinalDe_siempreML(gravedadAnemia, resultadoML) ==
    IF gravedadAnemia \in {"SEVERA", "MODERADA"}
    THEN <<"ALTO RIESGO", " (Alerta Clínica - ", gravedadAnemia, ")">>
    ELSE <<"ALTO RIESGO", " (Predicción ML - Anemia ", gravedadAnemia, ")">>

\* Mutant: a third rule for MEDIO with LEVE that names the clinical tier.
resultadoFinalDe_reglaLeve(gravedadAnemia, resultadoML) ==
    IF gravedadAnemia \in {"SEVERA", "MODERADA"}
    THEN <<"ALTO RIESGO", " (Alerta Clínica - ", gravedadAnemia, ")">>
    ELSE IF startsWith(resultadoML, "ALTO RIESGO")
    THEN <<"ALTO RIESGO", " (Predicción ML - Anemia ", gravedadAnemia, ")">>
    ELSE IF startsWith(resultadoML, "MEDIO RIESGO") /\ gravedadAnemia = "LEVE"
    THEN <<"MEDIO RIESGO", " (Predicción ML - Anemia ", gravedadAnemia, ")">>
    ELSE resultadoML

\* resultadoFinal (source lines 390-397).
resultadoFinalDe(gravedadAnemia, resultadoML) ==
    IF gravedadAnemia \in {"SEVERA", "MODERADA"}
    THEN <<"ALTO RIESGO", " (Alerta Clínica - ", gravedadAnemia, ")">>
    ELSE IF startsWith(resultadoML, "ALTO RIESGO")
    THEN <<"ALTO RIESGO", " (Predicción ML - Anemia ", gravedadAnemia, ")">>
    ELSE resultadoML

----------------------------------------------------------------------------
(* generarSugerencias                                                      *)

\* Each suggestion is the sequence of its pieces; the " | " the source writes
\* inside a suggestion is a piece of its own. Long sentences are cut after
\* their heading and the leading pictographs are left out.
sugSevera ==
    <<"Requerimiento Inmediato: Hospitalización y Transfusión de Sangre...",
      " | ", "CRÍTICO", " | ", "Atención Hospitalaria">>
sugModerada ==
    <<"Seguimiento Clínico Urgente: Dosis terapéutica de Hierro por 6 meses...",
      " | ", "CRÍTICO", " | ", "Suplementación Reforzada">>
sugLeve ==
    <<"Suplementación Inmediata: Dosis profiláctica... Control en 30 días.",
      " | ", "ALERTA", " | ", "Suplementación">>
sugNormal ==
    <<"Vigilancia Activa: El valor corregido de Hb es óptimo...",
      " | ", "Ok", " | ", "Preventivo">>
sugSuplemento ==
    <<"Suplementación: Iniciar o asegurar la adherencia al suplemento...",
      " | ", "Suplemento">>
sugEdad ==
    <<"Edad Crítica: Reforzar la alimentación complementaria...",
      " | ", "Dieta", " | ", "Edad">>
sugNutricion ==
    <<"Nutrición: Incluir alimentos fortificados...", " | ", "Dieta">>
sugSocial ==
    <<"Apoyo Social: Evaluar la elegibilidad para programas de apoyo...",
      " | ", "Social", " | ", "Económico">>
sugRural ==
    <<"Educación: Sesiones educativas... adaptadas al contexto rural.",
      " | ", "Educación", " | ", "Contextual">>
sugEducacionMadre ==
    <<"Intervención: Materiales educativos con lenguaje simple...",
      " | ", "Educación", " | ", "Vulnerabilidad">>
sugClimaFrio ==
    <<"Clima Frío: Reforzar la vigilancia de infecciones respiratorias...",
      " | ", "General", " | ", "Contextual">>

\* Mutant: no branch for LEVE, which falls to the suggestion of the last else.
sugClinica_sinLeve(gravedadAnemia) ==
    IF gravedadAnemia = "SEVERA" THEN sugSevera
    ELSE IF gravedadAnemia = "MODERADA" THEN sugModerada
    ELSE sugNormal

sugClinica(gravedadAnemia) ==
    IF gravedadAnemia = "SEVERA" THEN sugSevera
    ELSE IF gravedadAnemia = "MODERADA" THEN sugModerada
    ELSE IF gravedadAnemia = "LEVE" THEN sugLeve
    ELSE sugNormal

\* sugerencias.push(t) when c holds.
PushSi(c, t) == IF c THEN <<t>> ELSE <<>>

\* Mutant: the supplement and the nutrition suggestions are pushed only for a
\* patient without iron supplement whose tier is not NO ANÉMICO.
generarSugerencias_soloAnemicos(data, resultadoFinal, gravedadAnemia) ==
    LET sugerencias ==
            <<sugClinica(gravedadAnemia)>>
            \o PushSi(data.Suplemento_Hierro = "No"
                         /\ gravedadAnemia # "NO ANÉMICO", sugSuplemento)
            \o PushSi(data.Edad_meses < 24, sugEdad)
            \o PushSi(data.Suplemento_Hierro = "No"
                         /\ gravedadAnemia # "NO ANÉMICO", sugNutricion)
            \o PushSi(data.Ingreso_Familiar_Soles < 1000, sugSocial)
            \o PushSi(data.Area = "Rural", sugRural)
            \o PushSi(data.Nivel_Educacion_Madre \in {"Primaria", "Sin Nivel"},
                      sugEducacionMadre)
            \o PushSi(data.Clima = "FRÍO", sugClimaFrio)
    IN  <<(<<"Diagnóstico Híbrido: ">> \o resultadoFinal)>> \o sugerencias

\* Mutant: the suggestion for the mother's education is pushed before the rural
\* one.
generarSugerencias_educacionAntes(data, resultadoFinal, gravedadAnemia) ==
    LET sugerencias ==
            <<sugClinica(gravedadAnemia)>>
            \o PushSi(data.Suplemento_Hierro = "No", sugSuplemento)
            \o PushSi(data.Edad_meses < 24, sugEdad)
            \o <<sugNutricion>>
            \o PushSi(data.Ingreso_Familiar_Soles < 1000, sugSocial)
            \o PushSi(data.Nivel_Educacion_Madre \in {"Primaria", "Sin Nivel"},
                      sugEducacionMadre)
            \o PushSi(data.Area = "Rural", sugRural)
            \o PushSi(data.Clima = "FRÍO", sugClimaFrio)
    IN  <<(<<"Diagnóstico Híbrido: ">> \o resultadoFinal)>> \o sugerencias

\* Mutant: the cold-climate suggestion is never pushed.
generarSugerencias_sinClima(data, resultadoFinal, gravedadAnemia) ==
    LET sugerencias ==
            <<sugClinica(gravedadAnemia)>>
            \o PushSi(data.Suplemento_Hierro = "No", sugSuplemento)
            \o PushSi(data.Edad_meses < 24, sugEdad)
            \o <<sugNutricion>>
            \o PushSi(data.Ingreso_Familiar_Soles < 1000, sugSocial)
            \o PushSi(data.Area = "Rural", sugRural)
            \o PushSi(data.Nivel_Educacion_Madre \in {"Primaria", "Sin Nivel"},
                      sugEducacionMadre)
    IN  <<(<<"Diagnóstico Híbrido: ">> \o resultadoFinal)>> \o sugerencias

\* Mutant: the branch of the mother's education pushes the rural text again.
generarSugerencias_ruralRepetida(data, resultadoFinal, gravedadAnemia) ==
    LET sugerencias ==
            <<sugClinica(gravedadAnemia)>>
            \o PushSi(data.Suplemento_Hierro = "No", sugSuplemento)
            \o PushSi(data.Edad_meses < 24, sugEdad)
            \o <<sugNutricion>>
            \o PushSi(data.Ingreso_Familiar_Soles < 1000, sugSocial)
            \o PushSi(data.Area = "Rural", sugRural)
            \o PushSi(data.Nivel_Educacion_Madre \in {"Primaria", "Sin Nivel"},
                      sugRural)
            \o PushSi(data.Clima = "FRÍO", sugClimaFrio)
    IN  <<(<<"Diagnóstico Híbrido: ">> \o resultadoFinal)>> \o sugerencias

\* Mutant: the diagnosis line pushed at the end instead of unshifted.
generarSugerencias_diagnosticoAlFinal(data, resultadoFinal, gravedadAnemia) ==
    LET sugerencias ==
            <<sugClinica(gravedadAnemia)>>
            \o PushSi(data.Suplemento_Hierro = "No", sugSuplemento)
            \o PushSi(data.Edad_meses < 24, sugEdad)
            \o <<sugNutricion>>
            \o PushSi(data.Ingreso_Familiar_Soles < 1000, sugSocial)
            \o PushSi(data.Area = "Rural", sugRural)
            \o PushSi(data.Nivel_Educacion_Madre \in {"Primaria", "Sin Nivel"},
                      sugEducacionMadre)
            \o PushSi(data.Clima = "FRÍO", sugClimaFrio)
    IN  sugerencias \o <<(<<"Diagnóstico Híbrido: ">> \o resultadoFinal)>>

generarSugerencias(data, resultadoFinal, gravedadAnemia) ==
    LET sugerencias ==
            <<sugClinica(gravedadAnemia)>>
            \o PushSi(data.Suplemento_Hierro = "No", sugSuplemento)
            \o PushSi(data.Edad_meses < 24, sugEdad)
            \o <<sugNutricion>>
            \o PushSi(data.Ingreso_Familiar_Soles < 1000, sugSocial)
            \o PushSi(data.Area = "Rural", sugRural)
            \o PushSi(data.Nivel_Educacion_Madre \in {"Primaria", "Sin Nivel"},
                      sugEducacionMadre)
            \o PushSi(data.Clima = "FRÍO", sugClimaFrio)
    IN  \* sugerencias.unshift(`Diagnóstico Híbrido: ${resultadoFinal}`)
        <<(<<"Diagnóstico Híbrido: ">> \o resultadoFinal)>> \o sugerencias

----------------------------------------------------------------------------
(* The application: Firebase state, handleSubmit, registrarAlertaDB        *)

\* Bounds of the application model.
MaxDocs == 2
MaxDia == 2

\* A DNI is the sequence of its characters (the code tests its length).
DNI_A == <<"1", "2", "3", "4", "5", "6", "7", "8">>
DNI_B == <<"8", "7", "6", "5", "4", "3", "2", "1">>
\* Eight letters: the DNI field is a text input with maxLength 8.
DNI_LETRAS == <<"A", "B", "C", "D", "E", "F", "G", "H">>
DNIs == {<<>>, <<"1", "2", "3", "4", "5", "6", "7">>, DNI_A, DNI_B, DNI_LETRAS}
Nombres == {"", "ANA QUISPE"}
Celulares == {"", "+51900000000"}

\* The clinical and social fields of the patients.
PerfilSevera ==
    [Hemoglobina_g_dL |-> 65000, Edad_meses |-> 36,
     Region |-> "LIMA (Metropolitana y Provincia)",
     Ingreso_Familiar_Soles |-> 1800, Nro_Hijos |-> 2,
     Nivel_Educacion_Madre |-> "Secundaria", Area |-> "Urbana",
     Suplemento_Hierro |-> "Sí"]
PerfilLeve ==
    [Hemoglobina_g_dL |-> 105000, Edad_meses |-> 36,
     Region |-> "LIMA (Metropolitana y Provincia)",
     Ingreso_Familiar_Soles |-> 1800, Nro_Hijos |-> 2,
     Nivel_Educacion_Madre |-> "Secundaria", Area |-> "Urbana",
     Suplemento_Hierro |-> "Sí"]
\* Not anemic at altitude, with every social factor (score 0.95).
PerfilVulnerable ==
    [Hemoglobina_g_dL |-> 120000, Edad_meses |-> 40,
     Region |-> "PUNO (Sierra Alta)",
     Ingreso_Familiar_Soles |-> 900, Nro_Hijos |-> 4,
     Nivel_Educacion_Madre |-> "Primaria", Area |-> "Rural",
     Suplemento_Hierro |-> "No"]
\* Not anemic, with a weighted sum on the MEDIO threshold (0.40).
PerfilUmbral ==
    [Hemoglobina_g_dL |-> 120000, Edad_meses |-> 23,
     Region |-> "LIMA (Metropolitana y Provincia)",
     Ingreso_Familiar_Soles |-> 1800, Nro_Hijos |-> 2,
     Nivel_Educacion_Madre |-> "Secundaria", Area |-> "Rural",
     Suplemento_Hierro |-> "No"]
\* The first patient at 60 months, the largest age the form admits.
PerfilSesentaMeses == [PerfilSevera EXCEPT !.Edad_meses = 60]
Perfiles ==
    {PerfilSevera, PerfilLeve, PerfilVulnerable, PerfilUmbral,
     PerfilSesentaMeses}

\* formData with the identity fields d, n, c and the fields of profile p.
formDataDe(d, n, c, p) ==
    [DNI |-> d, Nombre_Apellido |-> n, Celular |-> c,
     Hemoglobina_g_dL |-> p.Hemoglobina_g_dL, Edad_meses |-> p.Edad_meses,
     Region |-> p.Region,
     Ingreso_Familiar_Soles |-> p.Ingreso_Familiar_Soles,
     Nro_Hijos |-> p.Nro_Hijos,
     Nivel_Educacion_Madre |-> p.Nivel_Educacion_Madre, Area |-> p.Area,
     Suplemento_Hierro |-> p.Suplemento_Hierro]

\* The forms submitted: every profile for one patient, a second patient, and
\* every combination of identity fields (most of them invalid) on one profile.
Formularios ==
    {formDataDe(DNI_A, "ANA QUISPE", "+51900000000", p) : p \in Perfiles}
    \cup {formDataDe(d, n, c, PerfilSevera) :
            d \in DNIs, n \in Nombres, c \in Celulares}

\* The values of Math.random() * 0.1 drawn in the application: the two ends
\* of the range.
AleatoriosApp == {0, 9}

\* The early returns of handleSubmit (source lines 378-380): the error set,
\* or NULL when the form passes.
validar(formData) ==
    IF formData.DNI = <<>> \/ Len(formData.DNI) # 8
    THEN "Ingrese un DNI válido de 8 dígitos."
    ELSE IF formData.Nombre_Apellido = ""
    THEN "Ingrese un nombre y apellido."
    ELSE IF formData.Celular = ""
    THEN "Ingrese un número de celular de contacto."
    ELSE NULL

\* { ...formData, Altitud_m, Clima } (source lines 382-385).
dataDe(formData) ==
    [DNI |-> formData.DNI, Nombre_Apellido |-> formData.Nombre_Apellido,
     Celular |-> formData.Celular,
     Hemoglobina_g_dL |-> formData.Hemoglobina_g_dL,
     Edad_meses |-> formData.Edad_meses, Region |-> formData.Region,
     Ingreso_Familiar_Soles |-> formData.Ingreso_Familiar_Soles,
     Nro_Hijos |-> formData.Nro_Hijos,
     Nivel_Educacion_Madre |-> formData.Nivel_Educacion_Madre,
     Area |-> formData.Area, Suplemento_Hierro |-> formData.Suplemento_Hierro,
     Altitud_m |-> getAltitudPorRegion(formData.Region),
     Clima |-> getClimaPorRegion(formData.Region)]

\* What handleSubmit computes before it registers the case (source lines
\* 382-406), aleatorio being the draw of Math.random() * 0.1.
evaluar(formData, aleatorio) ==
    LET data == dataDe(formData)
        clin == clasificarAnemiaClinica(data.Hemoglobina_g_dL, data.Edad_meses,
                                        data.Altitud_m)
        ml == predictRiskML(data, clin.gravedad, aleatorio)
        resultadoFinal == resultadoFinalDe(clin.gravedad, ml.resultadoML)
    IN  [data |-> data,
         resultadoFinal |-> resultadoFinal,
         probRiesgo |-> ml.probRiesgo,
         gravedadAnemia |-> clin.gravedad,
         sugerenciasFinales |->
             generarSugerencias(data, resultadoFinal, clin.gravedad),
         hbCorregida |-> clin.hbCorregida,
         correccionAlt |-> clin.correccionAlt]

\* Array.prototype.join(" | ") on suggestions that are sequences of pieces.
RECURSIVE join(_)
join(lista) ==
    IF lista = <<>> THEN <<>>
    ELSE IF Len(lista) = 1 THEN lista[1]
    ELSE lista[1] \o <<" | ">> \o join(Tail(lista))

\* String.prototype.split(" | ") on a text that is a sequence of pieces: the
\* text is cut at every " | " piece, and a text without one is returned whole.
RECURSIVE split(_)
split(texto) ==
    IF \A i \in 1..Len(texto) : texto[i] # " | " THEN <<texto>>
    ELSE LET i == CHOOSE k \in 1..Len(texto) :
                      /\ texto[k] = " | "
                      /\ \A j \in 1..(k - 1) : texto[j] # " | "
         IN  <<SubSeq(texto, 1, i - 1)>>
             \o split(SubSeq(texto, i + 1, Len(texto)))

\* Mutant: the initial status chosen by the clinical tier and the verdict.
dataToInsert_estadoPorGravedad(ev, id, fecha, usuario) ==
    [id |-> id,
     DNI |-> ev.data.DNI,
     Nombre |-> ev.data.Nombre_Apellido,
     HbInicial |-> ev.data.Hemoglobina_g_dL,
     Riesgo |-> ev.resultadoFinal,
     Gravedad |-> ev.gravedadAnemia,
     Region |-> ev.data.Region,
     Estado |-> IF ev.gravedadAnemia \in {"SEVERA", "MODERADA"}
                THEN "PENDIENTE (CLÍNICO URGENTE)"
                ELSE IF ev.resultadoFinal[1] = "ALTO RIESGO"
                THEN "PENDIENTE (IA/VULNERABILIDAD)"
                ELSE "REGISTRADO",
     Sugerencias |-> join(ev.sugerenciasFinales),
     FechaAlerta |-> fecha,
     Usuario_Registro |-> usuario]

\* dataToInsert of registrarAlertaDB (source lines 277-288); id is the
\* document id addDoc assigns.
dataToInsert(ev, id, fecha, usuario) ==
    [id |-> id,
     DNI |-> ev.data.DNI,
     Nombre |-> ev.data.Nombre_Apellido,
     HbInicial |-> ev.data.Hemoglobina_g_dL,
     Riesgo |-> ev.resultadoFinal,
     Gravedad |-> ev.gravedadAnemia,
     Region |-> ev.data.Region,
     Estado |-> "REGISTRADO",
     Sugerencias |-> join(ev.sugerenciasFinales),
     FechaAlerta |-> fecha,
     Usuario_Registro |-> usuario]

\* The message enviarAlertaSMS hands to mockTwilio.sendSMS.
mensajeSMS(ev) ==
    [celular |-> ev.data.Celular, nombre |-> ev.data.Nombre_Apellido,
     dni |-> ev.data.DNI, riesgo |-> ev.resultadoFinal,
     gravedad |-> ev.gravedadAnemia]

\* The options of the status select (source line 565) and the initial value of
\* filterStatus (source line 517).
opcionesEstado ==
    {"REGISTRADO", "PENDIENTE (CLÍNICO URGENTE)",
     "PENDIENTE (IA/VULNERABILIDAD)", "EN SEGUIMIENTO", "RESUELTO",
     "CERRADO (NO APLICA)"}
filterStatusInicial ==
    {"REGISTRADO", "PENDIENTE (CLÍNICO URGENTE)",
     "PENDIENTE (IA/VULNERABILIDAD)", "EN SEGUIMIENTO"}

InitApp ==
    /\ db \in BOOLEAN
    /\ userId = NULL
    /\ coleccion = <<>>
    /\ hoy = 1
    /\ pc = "idle"
    /\ envio = <<>>
    /\ error = NULL
    /\ message = NULL
    /\ predictionResult = <<>>
    /\ sms = <<>>
    /\ smsPorConfirmar = 0
    /\ alertas = <<>>
    /\ filterStatus = filterStatusInicial
    /\ filteredAlerts = <<>>
    /\ changedStates = <<>>
    /\ isSaving = FALSE
    /\ guardado = <<>>

\* onAuthStateChanged delivers a user: setUserId(user.uid).
AuthListo ==
    /\ db
    /\ userId = NULL
    /\ userId' = "uid-1"
    /\ UNCHANGED <<call, db, coleccion, hoy, pc, envio, error, message,
                   predictionResult, sms, smsPorConfirmar>>
    /\ UNCHANGED monVars

\* Midnight passes.
PasaDia ==
    /\ hoy < MaxDia
    /\ hoy' = hoy + 1
    /\ UNCHANGED <<call, db, userId, coleccion, pc, envio, error, message,
                   predictionResult, sms, smsPorConfirmar>>
    /\ UNCHANGED monVars

\* handleSubmit up to its await: the form is on screen (no result shown),
\* validation, the assessment, and registrarAlertaDB up to addDoc. One
\* submission is in flight at a time; the state db set with userId still
\* null is the window before the auth listener delivers a user.
HandleSubmitDe(formularios, aleatorios) ==
    /\ pc = "idle"
    /\ predictionResult = <<>>
    /\ \E formData \in formularios, aleatorio \in aleatorios :
          LET ev == evaluar(formData, aleatorio)
          IN  IF validar(formData) # NULL
              THEN /\ error' = validar(formData)
                   /\ message' = NULL
                   /\ UNCHANGED <<pc, envio, predictionResult>>
              ELSE IF ~db \/ userId = NULL
              THEN \* registrarAlertaDB returns setError(...), not an id
                   /\ error' =
                        "Base de datos no disponible o usuario no autenticado."
                   /\ message' = NULL
                   /\ predictionResult' = <<ev>>
                   /\ UNCHANGED <<pc, envio>>
              ELSE /\ Len(coleccion) < MaxDocs
                   /\ error' = NULL
                   /\ message' = NULL
                   /\ pc' = "addDoc"
                   /\ envio' = <<[ev |-> ev, fecha |-> hoy]>>
                   /\ UNCHANGED predictionResult
    /\ UNCHANGED <<call, db, userId, coleccion, hoy, sms, smsPorConfirmar>>
    /\ UNCHANGED monVars

\* handleSubmit on the forms and the draws of the application.
HandleSubmit == HandleSubmitDe(Formularios, AleatoriosApp)

\* The cases of the list dated d and earlier, latest first; cases of one date
\* keep their order (Array.prototype.sort is stable).
RECURSIVE hastaFecha(_, _)
hastaFecha(lista, d) ==
    IF d = 0 THEN <<>>
    ELSE SelectSeq(lista, LAMBDA a : a.FechaAlerta = d)
         \o hastaFecha(lista, d - 1)

\* fetchedAlerts.sort((a, b) => new Date(b['Fecha Alerta']) - new Date(a[...])).
ordenar(lista) == hastaFecha(lista, MaxDia)

\* Mutant: every case passes the filter.
filtrar_todas(lista, estados) == lista

\* alertas.filter(alert => filterStatus.includes(alert.Estado)).
filtrar(lista, estados) == SelectSeq(lista, LAMBDA a : a.Estado \in estados)

\* The callback of onSnapshot on the collection as a write of this client
\* leaves it (source lines 248-263); the SDK raises it before the promise of
\* the write settles. setAlertas, and the effect of MonitoringView that
\* filters the new alertas (source lines 522-525).
OnSnapshot(docs) ==
    /\ alertas' = ordenar(docs)
    /\ filteredAlerts' = filtrar(alertas', filterStatus)

\* addDoc resolves: the document is in the collection under a new id;
\* registrarAlertaDB returns the id, handleSubmit sends the SMS and shows the
\* result. The listener is called with the local write.
AddDocResuelve ==
    /\ pc = "addDoc"
    /\ coleccion' =
          Append(coleccion,
                 dataToInsert(envio[1].ev, Len(coleccion) + 1, envio[1].fecha,
                              userId))
    /\ message' = "Caso registrado permanentemente en Firestore"
    /\ sms' = Append(sms, mensajeSMS(envio[1].ev))
    /\ smsPorConfirmar' = smsPorConfirmar + 1
    /\ predictionResult' = <<envio[1].ev>>
    /\ pc' = "idle"
    /\ envio' = <<>>
    /\ UNCHANGED <<call, db, userId, hoy, error>>
    /\ OnSnapshot(coleccion')
    /\ UNCHANGED <<filterStatus, changedStates, isSaving, guardado>>

\* Mutant: when addDoc rejects, handleSubmit stops without showing the result.
AddDocRechaza_sinResultado ==
    /\ pc = "addDoc"
    /\ error' = "Error al registrar en Firestore"
    /\ pc' = "idle"
    /\ envio' = <<>>
    /\ UNCHANGED <<call, db, userId, coleccion, hoy, message, sms,
                   smsPorConfirmar, predictionResult>>
    /\ UNCHANGED monVars

\* Mutant: when addDoc rejects, handleSubmit sends the SMS all the same.
AddDocRechaza_conSMS ==
    /\ pc = "addDoc"
    /\ error' = "Error al registrar en Firestore"
    /\ sms' = Append(sms, mensajeSMS(envio[1].ev))
    /\ smsPorConfirmar' = smsPorConfirmar + 1
    /\ predictionResult' = <<envio[1].ev>>
    /\ pc' = "idle"
    /\ envio' = <<>>
    /\ UNCHANGED <<call, db, userId, coleccion, hoy, message>>
    /\ UNCHANGED monVars

\* addDoc rejects: registrarAlertaDB sets the error and returns null;
\* handleSubmit sends no SMS and shows the result.
AddDocRechaza ==
    /\ pc = "addDoc"
    /\ error' = "Error al registrar en Firestore"
    /\ predictionResult' = <<envio[1].ev>>
    /\ pc' = "idle"
    /\ envio' = <<>>
    /\ UNCHANGED <<call, db, userId, coleccion, hoy, message, sms,
                   smsPorConfirmar>>
    /\ UNCHANGED monVars

\* The promise of mockTwilio.sendSMS resolves (500 ms later).
SmsConfirmado ==
    /\ smsPorConfirmar > 0
    /\ smsPorConfirmar' = smsPorConfirmar - 1
    /\ message' = "Alerta SMS SIMULADA enviada"
    /\ UNCHANGED <<call, db, userId, coleccion, hoy, pc, envio, error,
                   predictionResult, sms>>
    /\ UNCHANGED monVars

\* The button "Realizar Nuevo Diagnóstico": setPredictionResult(null).
NuevoDiagnostico ==
    /\ predictionResult # <<>>
    /\ predictionResult' = <<>>
    /\ UNCHANGED <<call, db, userId, coleccion, hoy, pc, envio, error, message,
                   sms, smsPorConfirmar>>
    /\ UNCHANGED monVars

Init == call = NoCall /\ InitApp

\* The steps of the prediction view; NextMonitoreo below has those of the
\* monitoring view.
Next ==
    \/ AuthListo
    \/ PasaDia
    \/ HandleSubmit
    \/ AddDocResuelve
    \/ AddDocRechaza
    \/ SmsConfirmado
    \/ NuevoDiagnostico

Spec == Init /\ [][Next]_vars

----------------------------------------------------------------------------
(* MonitoringView: the filter, handleStateChange, handleSave               *)

\* The handlers are those of a MonitoringView that is on screen. As written,
\* the JSX of the view reads opcionesEstado (source line 670) outside
\* renderActionableAlerts, which declares it (source line 565); the handlers
\* below are the code that runs once that name is in scope.

\* The filters the operator selects: the initial one and the two closed
\* statuses.
Filtros == {filterStatusInicial, {"RESUELTO", "CERRADO (NO APLICA)"}}

\* The multiple select of the filter (source line 667): setFilterStatus, and
\* the effect that filters alertas again.
SetFilterStatus ==
    /\ \E f \in Filtros :
          /\ f # filterStatus
          /\ filterStatus' = f
          /\ filteredAlerts' = filtrar(alertas, f)
    /\ UNCHANGED <<call, db, userId, coleccion, hoy, pc, envio, error, message,
                   predictionResult, sms, smsPorConfirmar, alertas,
                   changedStates, isSaving, guardado>>

\* The statuses the operator picks in the select of a row.
EstadosElegidos == {"EN SEGUIMIENTO", "RESUELTO"}

\* { ...prev, [id]: newState }: a key already present keeps its place.
conCambio(prev, id, newState) ==
    IF \E k \in 1..Len(prev) : prev[k].id = id
    THEN [k \in 1..Len(prev) |->
             IF prev[k].id = id THEN [id |-> id, newState |-> newState]
             ELSE prev[k]]
    ELSE Append(prev, [id |-> id, newState |-> newState])

\* handleStateChange (source lines 527-530), from the select of a row of the
\* list shown.
HandleStateChange ==
    /\ \E k \in 1..Len(filteredAlerts), newState \in EstadosElegidos :
          changedStates' =
              conCambio(changedStates, filteredAlerts[k].id, newState)
    /\ UNCHANGED <<call, db, userId, coleccion, hoy, pc, envio, error, message,
                   predictionResult, sms, smsPorConfirmar, alertas,
                   filterStatus, filteredAlerts, isSaving, guardado>>

\* Mutant: every pending change of a case of alertas is sent.
debeActualizar_siempre(cambio, originales) ==
    \E k \in 1..Len(originales) : originales[k].id = cambio.id

\* The test of handleSave on a pending change (source lines 541-542): the
\* case is in the alertas of the handler and its Estado there is another one.
debeActualizar(cambio, originales) ==
    \E k \in 1..Len(originales) :
        /\ originales[k].id = cambio.id
        /\ originales[k].Estado # cambio.newState

\* The first pending change from position desde on that handleSave sends to
\* actualizarEstadoAlerta, 0 when there is none.
siguiente(cambios, originales, desde) ==
    LET S == {j \in desde..Len(cambios) : debeActualizar(cambios[j], originales)}
    IN  IF S = {} THEN 0 ELSE CHOOSE j \in S : \A i \in S : j <= i

msgActualizados == "Se actualizaron casos en Firestore."
msgFalloActualizar == "Fallo al actualizar casos. Consulte la consola."
msgErrorActualizar == "Error al actualizar estado en Firestore"

\* handleSave up to its first await (source lines 532-545): the button is
\* enabled; the pending changes that need no update are passed over, and
\* with none left the handler runs to its end at once.
HandleSave ==
    /\ changedStates # <<>>
    /\ ~isSaving
    /\ guardado = <<>>
    /\ error' = NULL
    /\ message' = NULL
    /\ LET j == siguiente(changedStates, alertas, 1)
       IN  IF j = 0
           THEN /\ changedStates' = <<>>
                /\ UNCHANGED <<isSaving, guardado>>
           ELSE /\ isSaving' = TRUE
                /\ guardado' = <<[cambios |-> changedStates,
                                  originales |-> alertas, i |-> j,
                                  successCount |-> 0, errorCount |-> 0]>>
                /\ UNCHANGED changedStates
    /\ UNCHANGED <<call, db, userId, coleccion, hoy, pc, envio,
                   predictionResult, sms, smsPorConfirmar, alertas,
                   filterStatus, filteredAlerts>>

\* handleSave from the return of actualizarEstadoAlerta on (source lines
\* 543-557), with the counts so far: the next update, or the end of the
\* handler.
SigueGuardado(successCount, errorCount, errorAhora) ==
    LET g == guardado[1]
        j == siguiente(g.cambios, g.originales, g.i + 1)
    IN  IF j = 0
        THEN /\ message' = IF successCount > 0 THEN msgActualizados
                           ELSE message
             /\ error' = IF errorCount > 0 THEN msgFalloActualizar
                         ELSE errorAhora
             /\ changedStates' = <<>>
             /\ isSaving' = FALSE
             /\ guardado' = <<>>
        ELSE /\ guardado' = <<[g EXCEPT !.i = j,
                                        !.successCount = successCount,
                                        !.errorCount = errorCount]>>
             /\ error' = errorAhora
             /\ UNCHANGED <<message, changedStates, isSaving>>

\* Mutant: the update written to every case of the collection.
conEstado_todos(docs, docId, nuevoEstado) ==
    [k \in 1..Len(docs) |-> [docs[k] EXCEPT !.Estado = nuevoEstado]]

\* updateDoc(docRef, { Estado: nuevoEstado }) on the collection.
conEstado(docs, docId, nuevoEstado) ==
    [k \in 1..Len(docs) |->
        IF docs[k].id = docId THEN [docs[k] EXCEPT !.Estado = nuevoEstado]
        ELSE docs[k]]

\* updateDoc resolves (source lines 304-308): actualizarEstadoAlerta returns
\* true.
UpdateDocResuelve ==
    /\ guardado # <<>>
    /\ db
    /\ LET g == guardado[1]
       IN  /\ coleccion' = conEstado(coleccion, g.cambios[g.i].id,
                                     g.cambios[g.i].newState)
           /\ OnSnapshot(coleccion')
           /\ SigueGuardado(g.successCount + 1, g.errorCount, error)
    /\ UNCHANGED <<call, db, userId, hoy, pc, envio, predictionResult, sms,
                   smsPorConfirmar, filterStatus>>

\* updateDoc rejects and the error is set (source lines 309-312), or db is
\* not set (source line 302): actualizarEstadoAlerta returns false.
UpdateDocRechaza ==
    /\ guardado # <<>>
    /\ LET g == guardado[1]
       IN  SigueGuardado(g.successCount, g.errorCount + 1,
                         IF db THEN msgErrorActualizar ELSE error)
    /\ UNCHANGED <<call, db, userId, coleccion, hoy, pc, envio,
                   predictionResult, sms, smsPorConfirmar, alertas,
                   filterStatus, filteredAlerts>>

\* The forms and the draws submitted while the cases are monitored.
FormulariosMonitoreo ==
    {formDataDe(DNI_A, "ANA QUISPE", "+51900000000", PerfilSevera)}
AleatoriosMonitoreo == {0}

HandleSubmitMonitoreo ==
    HandleSubmitDe(FormulariosMonitoreo, AleatoriosMonitoreo)

NextMonitoreo ==
    \/ AuthListo
    \/ HandleSubmitMonitoreo
    \/ AddDocResuelve
    \/ NuevoDiagnostico
    \/ SetFilterStatus
    \/ HandleStateChange
    \/ HandleSave
    \/ UpdateDocResuelve
    \/ UpdateDocRechaza

SpecMonitoreo == Init /\ [][NextMonitoreo]_vars

----------------------------------------------------------------------------
(* Calls of the core functions on drawn inputs                             *)

\* No call made yet, in an application that is not running.
InitCall == call = NoCall /\ InitApp /\ db

CallClasificar ==
    /\ call = NoCall
    /\ \E h \in Hemoglobinas, e \in Edades, a \in Altitudes :
          call' = [fn |-> "clasificarAnemiaClinica",
                   hemoglobina |-> h, edad_meses |-> e, altitud_m |-> a,
                   ret |-> clasificarAnemiaClinica(h, e, a)]
    /\ UNCHANGED appVars

NextClasificar == CallClasificar

SpecClasificar == InitCall /\ [][NextClasificar]_vars

\* A call of predictRiskML, and a second call with the same arguments.
CallPredict ==
    /\ call = NoCall
    /\ \E d \in DatosML, g \in Gravedades, r \in Aleatorios :
          call' = [fn |-> "predictRiskML", data |-> d, gravedad_anemia |-> g,
                   llamadas |-> 1, aleatorio |-> r,
                   ret |-> predictRiskML(d, g, r)]
    /\ UNCHANGED appVars

CallPredictOtraVez ==
    /\ call.fn = "predictRiskML"
    /\ call.llamadas = 1
    /\ \E r \in Aleatorios :
          call' = [fn |-> "predictRiskML", data |-> call.data,
                   gravedad_anemia |-> call.gravedad_anemia,
                   llamadas |-> 2, aleatorio |-> call.aleatorio,
                   aleatorio2 |-> r,
                   ret |-> call.ret,
                   ret2 |-> predictRiskML(call.data, call.gravedad_anemia, r)]
    /\ UNCHANGED appVars

NextPredict == CallPredict \/ CallPredictOtraVez

SpecPredict == InitCall /\ [][NextPredict]_vars

\* The verdict and the suggestions handleSubmit derives from a clinical tier
\* and a label of the scorer (source lines 390-399), on every combination.
CallVeredicto ==
    /\ call = NoCall
    /\ \E g \in Gravedades, ml \in ResultadosML, d \in DatosSug :
          LET resultadoFinal == resultadoFinalDe(g, ml)
          IN  call' = [fn |-> "resultadoFinal", gravedadAnemia |-> g,
                       resultadoML |-> ml, data |-> d,
                       resultadoFinal |-> resultadoFinal,
                       sugerenciasFinales |->
                           generarSugerencias(d, resultadoFinal, g)]
    /\ UNCHANGED appVars

\* The forms of the whole evaluation: hemoglobins of the four tiers, an age on
\* each side of 24 months, two regions of the table and two names it does not
\* hold (names that are not a member of Object.prototype, which
\* altitudes[region] would find), every social attribute.
HemoglobinasEvaluar == {65000, 85000, 105000, 120000}
RegionesEvaluar ==
    {"LIMA (Metropolitana y Provincia)", "PUNO (Sierra Alta)", "",
     "SIN REGISTRO"}
FormulariosEvaluar ==
    [DNI : {DNI_A}, Nombre_Apellido : {"ANA QUISPE"},
     Celular : {"+51900000000"},
     Hemoglobina_g_dL : HemoglobinasEvaluar, Edad_meses : {23, 36},
     Region : RegionesEvaluar,
     Ingreso_Familiar_Soles : Ingresos, Nro_Hijos : NrosHijos,
     Nivel_Educacion_Madre : NivelesEducacion, Area : Areas,
     Suplemento_Hierro : Suplementos]

\* The evaluation of handleSubmit (source lines 382-399) on a form: the
\* altitude of the region, the clinical tier, the label of the scorer, the
\* verdict and the suggestions.
CallEvaluar ==
    /\ call = NoCall
    /\ \E formData \in FormulariosEvaluar, r \in Aleatorios :
          LET ev == evaluar(formData, r)
          IN  call' = [fn |-> "evaluar", formData |-> formData,
                       aleatorio |-> r,
                       resultadoML |->
                           predictRiskML(ev.data, ev.gravedadAnemia,
                                         r).resultadoML,
                       ret |-> ev]
    /\ UNCHANGED appVars

NextEvaluar == CallEvaluar

SpecEvaluar == InitCall /\ [][NextEvaluar]_vars

NextVeredicto == CallVeredicto

SpecVeredicto == InitCall /\ [][NextVeredicto]_vars

----------------------------------------------------------------------------
(* Claims on clasificarAnemiaClinica (checked under SpecClasificar)        *)

EsClasificar == call.fn = "clasificarAnemiaClinica"

EdadEnBanda(e) == e >= 6 /\ e <= 59

\* C4: the corrected hemoglobin is the measured value plus the altitude
\* correction, and it falls in exactly one tier: below 7.0 SEVERA, from 7.0 up
\* to but excluding 10.0 MODERADA, from 10.0 up to but excluding 11.0 LEVE, at
\* or above 11.0 NO ANÉMICO.
C4_TierPartition ==
    EsClasificar =>
        LET hc == call.ret.hbCorregida
            g  == call.ret.gravedad
        IN  /\ hc = call.hemoglobina + call.ret.correccionAlt
            /\ call.ret.correccionAlt = 3 * call.altitud_m
            /\ g \in Gravedades
            /\ (g = "SEVERA") <=> (hc < 70000)
            /\ (g = "MODERADA") <=> (hc >= 70000 /\ hc < 100000)
            /\ (g = "LEVE") <=> (hc >= 100000 /\ hc < call.ret.umbralAnemia)
            /\ (g = "NO ANÉMICO") <=> (hc >= call.ret.umbralAnemia)
            /\ call.ret.umbralAnemia = 110000

\* C4 witness: a measured value below 10.0 that the altitude correction lifts
\* into the LEVE tier.
C4_Witness ==
    /\ EsClasificar
    /\ call.hemoglobina < 100000
    /\ call.ret.correccionAlt > 0
    /\ call.ret.gravedad = "LEVE"

\* C5 as stated: at a corrected hemoglobin exactly on a boundary the more
\* severe adjacent tier is assigned (7.0 SEVERA, 10.0 MODERADA, 11.0 LEVE).
C5_BoundaryMoreSevere ==
    (EsClasificar /\ EdadEnBanda(call.edad_meses)) =>
        /\ call.ret.hbCorregida = 70000 => call.ret.gravedad = "SEVERA"
        /\ call.ret.hbCorregida = 100000 => call.ret.gravedad = "MODERADA"
        /\ call.ret.hbCorregida = 110000 => call.ret.gravedad = "LEVE"

\* C5 amended: at a corrected hemoglobin exactly on a boundary the less severe
\* adjacent tier is assigned (7.0 MODERADA, 10.0 LEVE, 11.0 NO ANÉMICO), for
\* every age in 6..59.
C5_BoundaryLessSevere ==
    (EsClasificar /\ EdadEnBanda(call.edad_meses)) =>
        /\ call.ret.hbCorregida = 70000 => call.ret.gravedad = "MODERADA"
        /\ call.ret.hbCorregida = 100000 => call.ret.gravedad = "LEVE"
        /\ call.ret.hbCorregida = 110000 => call.ret.gravedad = "NO ANÉMICO"

\* C5 witness: 6.7 g/dL measured at 1000 m, corrected to exactly 7.0.
C5_Witness ==
    /\ EsClasificar
    /\ EdadEnBanda(call.edad_meses)
    /\ call.altitud_m > 0
    /\ call.ret.hbCorregida = 70000

\* C6: the altitude correction is non-negative, and no lower altitude of the
\* range has a larger correction than the altitude of the call.
C6_CorrectionMonotone ==
    EsClasificar =>
        /\ call.ret.correccionAlt >= 0
        /\ \A a \in Altitudes :
              a <= call.altitud_m => correccionAlt(a) <= call.ret.correccionAlt

\* C6 witness: a call at the top of the range, above a lower altitude whose
\* correction is strictly smaller.
C6_Witness ==
    /\ EsClasificar
    /\ call.altitud_m = AltitudMax - 1
    /\ \E a \in Altitudes :
          a < call.altitud_m /\ correccionAlt(a) < call.ret.correccionAlt

----------------------------------------------------------------------------
(* Claims on predictRiskML (checked under SpecPredict)                     *)

EsPredict == call.fn = "predictRiskML"

\* C7: the score predictRiskML returns lies in [0.01, 0.99], for every
\* combination of attributes, every clinical tier and every jitter.
C7_ScoreInRange ==
    EsPredict =>
        /\ call.ret.probRiesgo >= 1 /\ call.ret.probRiesgo <= 99
        /\ call.llamadas = 2 =>
              (call.ret2.probRiesgo >= 1 /\ call.ret2.probRiesgo <= 99)

\* C7 witness: a SEVERA call whose jittered sum (0.99 + 0.04) exceeds 0.99
\* and is capped.
C7_Witness ==
    /\ EsPredict
    /\ call.gravedad_anemia = "SEVERA"
    /\ call.aleatorio = 9
    /\ call.ret.probRiesgo = 99

\* C8 as stated: for a clinical tier SEVERA or MODERADA the score returned is
\* at least 0.75, whatever the weighted sum and whatever the jitter.
C8_HighFloor ==
    (EsPredict /\ call.gravedad_anemia \in {"SEVERA", "MODERADA"}) =>
        call.ret.probRiesgo >= 75

\* C9 as stated: two calls of predictRiskML with identical attributes and
\* identical clinical tier return the same score and the same tier, so that
\* the two final verdicts built from them are the same.
C9_Deterministic ==
    (EsPredict /\ call.llamadas = 2) =>
        /\ call.ret.probRiesgo = call.ret2.probRiesgo
        /\ call.ret.resultadoML = call.ret2.resultadoML
        /\ resultadoFinalDe(call.gravedad_anemia, call.ret.resultadoML)
              = resultadoFinalDe(call.gravedad_anemia, call.ret2.resultadoML)

----------------------------------------------------------------------------
(* Claims on the hybrid verdict (checked under SpecVeredicto)              *)

EsVeredicto == call.fn = "resultadoFinal"

\* The risk level a verdict or a label begins with.
Nivel(texto) == texto[1]

Nombra(texto, pieza) == \E i \in 1..Len(texto) : texto[i] = pieza

\* C1: for a clinical tier SEVERA or MODERADA the final verdict is ALTO RIESGO
\* with the clinical-alert qualifier naming that tier, whichever of the three
\* labels the scorer returned.
C1_ClinicalOverride ==
    (EsVeredicto /\ call.gravedadAnemia \in {"SEVERA", "MODERADA"}) =>
        /\ Nivel(call.resultadoFinal) = "ALTO RIESGO"
        /\ call.resultadoFinal =
              <<"ALTO RIESGO", " (Alerta Clínica - ", call.gravedadAnemia, ")">>

\* C1 witness: MODERADA with the scorer's label BAJO RIESGO, overridden.
C1_Witness ==
    /\ EsVeredicto
    /\ call.gravedadAnemia = "MODERADA"
    /\ Nivel(call.resultadoML) = "BAJO RIESGO"
    /\ Nivel(call.resultadoFinal) = "ALTO RIESGO"

\* C2: for a clinical tier that is neither SEVERA nor MODERADA the level of the
\* final verdict is the level of the scorer's label: ALTO RIESGO carries the
\* model-driven qualifier with the clinical tier, and otherwise the verdict is
\* MEDIO RIESGO or BAJO RIESGO as the scorer said.
C2_VerdictFollowsScorer ==
    (EsVeredicto /\ call.gravedadAnemia \notin {"SEVERA", "MODERADA"}) =>
        /\ Nivel(call.resultadoFinal) = Nivel(call.resultadoML)
        /\ Nivel(call.resultadoFinal)
              \in {"ALTO RIESGO", "MEDIO RIESGO", "BAJO RIESGO"}
        /\ Nivel(call.resultadoML) = "ALTO RIESGO" =>
              call.resultadoFinal =
                  <<"ALTO RIESGO", " (Predicción ML - Anemia ",
                    call.gravedadAnemia, ")">>

\* C2 witness: NO ANÉMICO with the scorer's label ALTO RIESGO.
C2_Witness ==
    /\ EsVeredicto
    /\ call.gravedadAnemia = "NO ANÉMICO"
    /\ Nivel(call.resultadoML) = "ALTO RIESGO"
    /\ Nombra(call.resultadoFinal, " (Predicción ML - Anemia ")

EsMedioLeve ==
    /\ EsVeredicto
    /\ call.gravedadAnemia = "LEVE"
    /\ Nivel(call.resultadoML) = "MEDIO RIESGO"

\* C3 as stated: for the scorer's label MEDIO RIESGO and the clinical tier LEVE
\* the verdict is MEDIO RIESGO with a qualifier that names the clinical tier,
\* not the plain label of the scorer.
C3_MediumMildNamesTier ==
    EsMedioLeve =>
        /\ Nivel(call.resultadoFinal) = "MEDIO RIESGO"
        /\ Nombra(call.resultadoFinal, "LEVE")
        /\ call.resultadoFinal # call.resultadoML

\* C3 amended: for the scorer's label MEDIO RIESGO and the clinical tier LEVE
\* the verdict is MEDIO RIESGO with the plain label of the scorer,
\* "MEDIO RIESGO (Predicción ML)", which does not name the clinical tier.
C3_MediumMildPlainLabel ==
    EsMedioLeve =>
        /\ Nivel(call.resultadoFinal) = "MEDIO RIESGO"
        /\ call.resultadoFinal = <<"MEDIO RIESGO", " (Predicción ML)">>
        /\ ~Nombra(call.resultadoFinal, "LEVE")

\* C3 witness: a verdict computed for MEDIO RIESGO with LEVE.
C3_Witness ==
    /\ EsMedioLeve
    /\ Len(call.resultadoFinal) = 2
    /\ call.sugerenciasFinales[1] =
          <<"Diagnóstico Híbrido: ", "MEDIO RIESGO", " (Predicción ML)">>

----------------------------------------------------------------------------
(* Claims on generarSugerencias (checked under SpecVeredicto)              *)

\* The list holds the text t.
Contiene(lista, t) == \E i \in 1..Len(lista) : lista[i] = t

\* The position of the text t in the list, 0 when the list does not hold it.
Pos(lista, t) ==
    IF Contiene(lista, t) THEN CHOOSE i \in 1..Len(lista) : lista[i] = t ELSE 0

\* C15 as stated: the suggestion list joined with " | ", as registrarAlertaDB
\* stores it, and split on " | " again is the original list, element for
\* element.
C15_JoinSplitRoundTrip ==
    EsVeredicto =>
        split(join(call.sugerenciasFinales)) = call.sugerenciasFinales

\* The four clinical-severity suggestions (source lines 125-133).
SugClinicas == {sugSevera, sugModerada, sugLeve, sugNormal}

\* C16: every list holds exactly one clinical-severity suggestion, the one of
\* the clinical tier: the hospital referral for SEVERA, the urgent follow-up
\* for MODERADA, the immediate supplementation for LEVE, the vigilance for
\* NO ANÉMICO.
C16_OneClinicalSuggestion ==
    EsVeredicto =>
        LET lista == call.sugerenciasFinales
            g == call.gravedadAnemia
        IN  /\ Cardinality({i \in 1..Len(lista) : lista[i] \in SugClinicas}) = 1
            /\ (g = "SEVERA") => Contiene(lista, sugSevera)
            /\ (g = "MODERADA") => Contiene(lista, sugModerada)
            /\ (g = "LEVE") => Contiene(lista, sugLeve)
            /\ (g = "NO ANÉMICO") => Contiene(lista, sugNormal)

\* C16 witness: a LEVE child without supplement, whose list holds the clinical
\* suggestion of LEVE next to the supplement suggestion.
C16_Witness ==
    /\ EsVeredicto
    /\ call.gravedadAnemia = "LEVE"
    /\ call.data.Suplemento_Hierro = "No"
    /\ Contiene(call.sugerenciasFinales, sugLeve)
    /\ Contiene(call.sugerenciasFinales, sugSuplemento)

\* C17 as stated: the list holds a supplement or a diet suggestion only when
\* the patient receives no iron supplement and the clinical tier is not
\* NO ANÉMICO.
C17_SupplementGatedOnTier ==
    EsVeredicto =>
        ((\/ Contiene(call.sugerenciasFinales, sugSuplemento)
          \/ Contiene(call.sugerenciasFinales, sugNutricion))
            => (/\ call.data.Suplemento_Hierro = "No"
                /\ call.gravedadAnemia # "NO ANÉMICO"))

\* C17, amended: the list holds the supplement suggestion exactly when the
\* patient receives no iron supplement, whatever the clinical tier, and it
\* holds the nutrition (diet) suggestion always.
C17_SupplementGatedOnSupplementOnly ==
    EsVeredicto =>
        /\ Contiene(call.sugerenciasFinales, sugSuplemento)
              <=> (call.data.Suplemento_Hierro = "No")
        /\ Contiene(call.sugerenciasFinales, sugNutricion)

\* C17 witness: a NO ANÉMICO child without supplement, whose list holds the
\* supplement and the nutrition suggestions.
C17_Witness ==
    /\ EsVeredicto
    /\ call.gravedadAnemia = "NO ANÉMICO"
    /\ call.data.Suplemento_Hierro = "No"
    /\ Contiene(call.sugerenciasFinales, sugSuplemento)
    /\ Contiene(call.sugerenciasFinales, sugNutricion)

\* The text at position p, when there is one, comes before the text at q.
Antes(p, q) == (p > 0 /\ q > 0) => p < q

\* The clinical, supplement and age suggestions come before the income,
\* mother's education and rural suggestions.
ClinicasPrimero(lista) ==
    \A t \in SugClinicas \cup {sugSuplemento, sugEdad} :
        \A u \in {sugSocial, sugEducacionMadre, sugRural} :
            Antes(Pos(lista, t), Pos(lista, u))

\* C18 as stated: the income and the mother's education suggestions come
\* before the rural suggestion, and all three after the clinical, supplement
\* and age suggestions.
C18_SocioeconomicBeforeRural ==
    EsVeredicto =>
        LET lista == call.sugerenciasFinales
        IN  /\ Antes(Pos(lista, sugSocial), Pos(lista, sugRural))
            /\ Antes(Pos(lista, sugEducacionMadre), Pos(lista, sugRural))
            /\ ClinicasPrimero(lista)

\* C18, amended: the income suggestion comes before the rural suggestion and
\* the mother's education suggestion after it, and all three after the
\* clinical, supplement and age suggestions.
C18_RuralBetweenIncomeAndEducation ==
    EsVeredicto =>
        LET lista == call.sugerenciasFinales
        IN  /\ Antes(Pos(lista, sugSocial), Pos(lista, sugRural))
            /\ Antes(Pos(lista, sugRural), Pos(lista, sugEducacionMadre))
            /\ ClinicasPrimero(lista)

\* C18 witness: a list with the supplement, age, income, rural and mother's
\* education suggestions all present.
C18_Witness ==
    /\ EsVeredicto
    /\ \A t \in {sugSuplemento, sugEdad, sugSocial, sugRural,
                 sugEducacionMadre} : Contiene(call.sugerenciasFinales, t)

\* The last text of the list.
Ultimo(lista) == lista[Len(lista)]

\* The suggestions whose text names a re-check: the monthly re-evaluation of
\* MODERADA and the control in 30 days of LEVE (source lines 128 and 130).
SugConControl == {sugModerada, sugLeve}

\* C19 as stated: every list ends with a suggestion that names a re-check.
C19_EndsWithRecheck ==
    EsVeredicto => Ultimo(call.sugerenciasFinales) \in SugConControl

\* C19, amended: the list has no closing re-check suggestion; it ends with the
\* last suggestion whose condition held: the cold-climate one in a cold
\* climate, else the mother's education one, else the rural one, else the
\* income one, else the nutrition suggestion.
C19_EndsWithLastApplicable ==
    EsVeredicto =>
        LET d == call.data
        IN  Ultimo(call.sugerenciasFinales) =
               IF d.Clima = "FRÍO" THEN sugClimaFrio
               ELSE IF d.Nivel_Educacion_Madre \in {"Primaria", "Sin Nivel"}
                    THEN sugEducacionMadre
               ELSE IF d.Area = "Rural" THEN sugRural
               ELSE IF d.Ingreso_Familiar_Soles < 1000 THEN sugSocial
               ELSE sugNutricion

\* C19 witness: a LEVE child in a cold climate, whose list holds the control
\* in 30 days and ends with the cold-climate suggestion.
C19_Witness ==
    /\ EsVeredicto
    /\ call.gravedadAnemia = "LEVE"
    /\ call.data.Clima = "FRÍO"
    /\ Contiene(call.sugerenciasFinales, sugLeve)
    /\ Ultimo(call.sugerenciasFinales) = sugClimaFrio

\* C20: no list holds the same text at two positions.
C20_NoDuplicateText ==
    EsVeredicto =>
        \A i, j \in 1..Len(call.sugerenciasFinales) :
            call.sugerenciasFinales[i] = call.sugerenciasFinales[j] => i = j

\* C20 witness: the longest list, with every conditional suggestion pushed:
\* nine texts, two of them on education.
C20_Witness ==
    /\ EsVeredicto
    /\ Len(call.sugerenciasFinales) = 9
    /\ Contiene(call.sugerenciasFinales, sugRural)
    /\ Contiene(call.sugerenciasFinales, sugEducacionMadre)

----------------------------------------------------------------------------
(* Claims on the whole evaluation (checked under SpecEvaluar)              *)

EsEvaluar == call.fn = "evaluar"

EscenarioA ==
    /\ EsEvaluar
    /\ call.formData.Hemoglobina_g_dL = 65000
    /\ call.formData.Edad_meses = 36
    /\ call.ret.data.Altitud_m = 150

\* The corrected hemoglobin, tier and verdict of scenario A: 6.545 g/dL,
\* SEVERA, ALTO RIESGO.
ResultadoEscenarioA ==
    /\ call.ret.hbCorregida = 65450
    /\ call.ret.gravedadAnemia = "SEVERA"
    /\ Nivel(call.ret.resultadoFinal) = "ALTO RIESGO"

\* C23 as stated: in scenario A the corrected hemoglobin is about 6.5, the
\* tier SEVERA, the verdict ALTO RIESGO, and the first element of the list is
\* the clinical suggestion of SEVERA.
C23_ScenarioAClinicalFirst ==
    EscenarioA =>
        /\ ResultadoEscenarioA
        /\ call.ret.sugerenciasFinales[1] = sugSevera

\* C23, amended: in scenario A the corrected hemoglobin is 6.545, the tier
\* SEVERA, the verdict ALTO RIESGO; the first element of the list is the
\* diagnosis line with the verdict and the second is the clinical suggestion
\* of SEVERA.
C23_ScenarioADiagnosisFirst ==
    EscenarioA =>
        /\ ResultadoEscenarioA
        /\ call.ret.sugerenciasFinales[1] =
              <<"Diagnóstico Híbrido: ", "ALTO RIESGO", " (Alerta Clínica - ",
                "SEVERA", ")">>
        /\ call.ret.sugerenciasFinales[2] = sugSevera

\* C23 witness: scenario A evaluated, for a region of the table at 150 m.
C23_Witness ==
    /\ EscenarioA
    /\ call.formData.Region = "LIMA (Metropolitana y Provincia)"
    /\ call.ret.gravedadAnemia = "SEVERA"
    /\ Len(call.ret.sugerenciasFinales) >= 2

\* Scenario C: hemoglobin 10.5 g/dL, 36 months, 150 m, income 1800, urban
\* area, iron supplement received.
EscenarioC ==
    /\ EsEvaluar
    /\ call.formData.Hemoglobina_g_dL = 105000
    /\ call.formData.Edad_meses = 36
    /\ call.ret.data.Altitud_m = 150
    /\ call.formData.Ingreso_Familiar_Soles = 1800
    /\ call.formData.Area = "Urbana"
    /\ call.formData.Suplemento_Hierro = "Sí"

\* C24 as stated: in scenario C the tier is LEVE, the label of the scorer and
\* the verdict are BAJO RIESGO, and the list holds the suggestion of LEVE and
\* a suggestion naming a re-check, nothing else.
C24_ScenarioCLow ==
    EscenarioC =>
        /\ call.ret.gravedadAnemia = "LEVE"
        /\ Nivel(call.resultadoML) = "BAJO RIESGO"
        /\ Nivel(call.ret.resultadoFinal) = "BAJO RIESGO"
        /\ \A i \in 1..Len(call.ret.sugerenciasFinales) :
              call.ret.sugerenciasFinales[i] \in SugConControl

\* C24, amended: in scenario C the tier is LEVE, the label of the scorer is
\* MEDIO RIESGO (the floor of 0.45 for LEVE, less a jitter of at most 0.05),
\* the verdict is that plain label, and the list is the diagnosis line, the
\* suggestion of LEVE and the nutrition suggestion, followed by the mother's
\* education suggestion when her level is Primaria or Sin Nivel.
C24_ScenarioCMedium ==
    EscenarioC =>
        /\ call.ret.gravedadAnemia = "LEVE"
        /\ call.resultadoML = <<"MEDIO RIESGO", " (Predicción ML)">>
        /\ call.ret.resultadoFinal = <<"MEDIO RIESGO", " (Predicción ML)">>
        /\ call.ret.sugerenciasFinales =
              <<(<<"Diagnóstico Híbrido: ", "MEDIO RIESGO",
                   " (Predicción ML)">>),
                sugLeve, sugNutricion>>
              \o PushSi(call.formData.Nivel_Educacion_Madre
                            \in {"Primaria", "Sin Nivel"}, sugEducacionMadre)

\* C24 witness: scenario C evaluated for a mother with secondary education
\* and the lowest draw of the jitter: a score of 0.40 and a list of three.
C24_Witness ==
    /\ EscenarioC
    /\ call.formData.Nivel_Educacion_Madre = "Secundaria"
    /\ call.aleatorio = 0
    /\ call.ret.probRiesgo = 40
    /\ Len(call.ret.sugerenciasFinales) = 3

\* C25: the level of the final verdict is the level of the label predictRiskML
\* returned in the same evaluation.
C25_VerdictLevelIsScorerLevel ==
    EsEvaluar =>
        Nivel(call.ret.resultadoFinal) = Nivel(call.resultadoML)

\* C25 witness: a MODERADA case whose social factors sum to 0.10, with the
\* lowest draw of the jitter: the score 0.70 is still ALTO RIESGO and the
\* verdict is the clinical alert.
C25_Witness ==
    /\ EsEvaluar
    /\ call.ret.gravedadAnemia = "MODERADA"
    /\ probFactores(call.ret.data) = 10
    /\ call.aleatorio = 0
    /\ call.ret.probRiesgo = 70
    /\ call.ret.resultadoFinal =
          <<"ALTO RIESGO", " (Alerta Clínica - ", "MODERADA", ")">>

\* The form of the call with another education level of the mother.
DataConEducacion(nivel) ==
    [call.ret.data EXCEPT !.Nivel_Educacion_Madre = nivel]

\* C29 as stated: predictRiskML adds the increment of 0.20 for the mother's
\* education level exactly when generarSugerencias emits the mother's
\* education suggestion for that level.
C29_LowEducationAgreement ==
    EsEvaluar =>
        ((probFactores(call.ret.data)
             = probFactores(DataConEducacion("Universitaria")) + 20)
         <=> Contiene(call.ret.sugerenciasFinales, sugEducacionMadre))

----------------------------------------------------------------------------
(* Claims on the application (checked under Spec)                          *)

\* C10 as stated: the collection never holds two case records with the same
\* DNI and the same alert date.
C10_OneRecordPerDniAndDate ==
    \A i, j \in 1..Len(coleccion) :
        (/\ coleccion[i].DNI = coleccion[j].DNI
         /\ coleccion[i].FechaAlerta = coleccion[j].FechaAlerta) => i = j

\* A step that adds a case record to the collection, and the record added.
CasoCreado == Len(coleccion') > Len(coleccion)
NuevoCaso == coleccion'[Len(coleccion')]

\* C11 as stated: a case record is created with the status PENDIENTE (CLÍNICO
\* URGENTE) when its clinical tier is SEVERA or MODERADA, PENDIENTE
\* (IA/VULNERABILIDAD) when its verdict is ALTO RIESGO and the tier is neither,
\* and REGISTRADO otherwise.
C11_InitialStatusByTier ==
    [][CasoCreado =>
          NuevoCaso.Estado =
             IF NuevoCaso.Gravedad \in {"SEVERA", "MODERADA"}
             THEN "PENDIENTE (CLÍNICO URGENTE)"
             ELSE IF Nivel(NuevoCaso.Riesgo) = "ALTO RIESGO"
             THEN "PENDIENTE (IA/VULNERABILIDAD)"
             ELSE "REGISTRADO"]_vars

\* C11, amended: every case record is created with the status REGISTRADO,
\* whatever its verdict and its clinical tier.
C11_InitialStatusRegistrado ==
    [][CasoCreado => NuevoCaso.Estado = "REGISTRADO"]_vars

\* C11 witness: the collection holds a SEVERA case and a case of ALTO RIESGO
\* that is not anemic, both REGISTRADO.
C11_Witness ==
    /\ \E i \in 1..Len(coleccion) :
          /\ coleccion[i].Gravedad = "SEVERA"
          /\ coleccion[i].Estado = "REGISTRADO"
    /\ \E i \in 1..Len(coleccion) :
          /\ coleccion[i].Gravedad = "NO ANÉMICO"
          /\ Nivel(coleccion[i].Riesgo) = "ALTO RIESGO"
          /\ coleccion[i].Estado = "REGISTRADO"

\* The characters of a numeric DNI.
Digitos == {"0", "1", "2", "3", "4", "5", "6", "7", "8", "9"}

\* Valid input: a DNI of exactly 8 digits, a name, a hemoglobin of the range
\* of the form, an age of the band of 6 to 59 months.
DNIValido(dni) == Len(dni) = 8 /\ \A i \in 1..Len(dni) : dni[i] \in Digitos
EntradaValida(data) ==
    /\ DNIValido(data.DNI)
    /\ data.Nombre_Apellido # ""
    /\ data.Hemoglobina_g_dL >= HbMin * 1000
    /\ data.Hemoglobina_g_dL <= HbMax * 1000
    /\ EdadEnBanda(data.Edad_meses)

\* C12 as stated: an invalid submission is refused: no result is shown for
\* it, no case record is persisted for it and no SMS is sent for it.
C12_InvalidInputRefused ==
    /\ predictionResult # <<>> => EntradaValida(predictionResult[1].data)
    /\ \A i \in 1..Len(coleccion) :
          DNIValido(coleccion[i].DNI) /\ coleccion[i].Nombre # ""
    /\ \A i \in 1..Len(sms) : DNIValido(sms[i].dni) /\ sms[i].nombre # ""

\* The messages registrarAlertaDB reports a failure with (source lines 275
\* and 296).
msgNoDisponible == "Base de datos no disponible o usuario no autenticado."
msgErrorRegistro == "Error al registrar en Firestore"

\* A step in which the insert fails: addDoc rejects, or registrarAlertaDB
\* reports that the database or the user is not available.
FallaInsercion ==
    \/ pc = "addDoc" /\ pc' = "idle" /\ coleccion' = coleccion
    \/ error' = msgNoDisponible /\ error' # error

\* The record is a whole assessment: tier, verdict, score and suggestions of
\* its data.
EsEvaluacion(r) ==
    /\ r.gravedadAnemia =
          clasificarAnemiaClinica(r.data.Hemoglobina_g_dL, r.data.Edad_meses,
                                  r.data.Altitud_m).gravedad
    /\ \E a \in Aleatorios :
          LET ml == predictRiskML(r.data, r.gravedadAnemia, a)
          IN  /\ r.probRiesgo = ml.probRiesgo
              /\ r.resultadoFinal =
                    resultadoFinalDe(r.gravedadAnemia, ml.resultadoML)
    /\ r.sugerenciasFinales =
          generarSugerencias(r.data, r.resultadoFinal, r.gravedadAnemia)

\* C13: when the insert fails, the same step shows the computed assessment
\* (predictionResult is set), the failure is reported in error only, and no
\* case record and no SMS are added.
C13_AssessmentSurvivesInsertFailure ==
    [][FallaInsercion =>
          /\ predictionResult' # <<>>
          /\ EsEvaluacion(predictionResult'[1])
          /\ error' \in {msgNoDisponible, msgErrorRegistro}
          /\ coleccion' = coleccion
          /\ sms' = sms]_vars

\* C13 witness: addDoc has rejected: the error is reported, the result is
\* shown, the collection is empty and no SMS was sent.
C13_Witness ==
    /\ error = msgErrorRegistro
    /\ predictionResult # <<>>
    /\ pc = "idle"
    /\ coleccion = <<>>
    /\ sms = <<>>

\* C26: a step sends an SMS only when the same step completes the insert of
\* a case record: it sends exactly one, for the patient of the record added,
\* while the database and the user are available; a step that reports a
\* validation error or a failure of the insert sends none.
C26_SmsOnlyAfterInsert ==
    [][(sms' # sms) =>
          /\ pc = "addDoc"
          /\ db /\ userId # NULL
          /\ CasoCreado
          /\ Len(coleccion') = Len(coleccion) + 1
          /\ sms' = Append(sms, sms'[Len(sms')])
          /\ sms'[Len(sms')].dni = NuevoCaso.DNI
          /\ sms'[Len(sms')].nombre = NuevoCaso.Nombre
          /\ error' = error
          /\ error' \notin {msgNoDisponible, msgErrorRegistro}]_vars

\* C26 witness: an insert has completed: one case record, one SMS for its
\* patient, the result shown and no error.
C26_Witness ==
    /\ Len(coleccion) = 1
    /\ Len(sms) = 1
    /\ sms[1].dni = coleccion[1].DNI
    /\ error = NULL
    /\ predictionResult # <<>>

----------------------------------------------------------------------------
(* Claims on MonitoringView (checked under SpecMonitoreo)                  *)

\* The case without its status.
SinEstado(doc) == [doc EXCEPT !.Estado = "-"]

\* A step that changes the status of a stored case.
EstadoActualizado ==
    /\ Len(coleccion') = Len(coleccion)
    /\ coleccion' # coleccion

\* C21: a status update changes the Estado of one case, the one of the pending
\* change sent to actualizarEstadoAlerta, and nothing else; in every step the
\* cases stored before keep their DNI, name, hemoglobin, verdict, tier,
\* region, suggestions, alert date and author.
C21_UpdateChangesOnlyEstado ==
    [][/\ Len(coleccion') >= Len(coleccion)
       /\ \A k \in 1..Len(coleccion) :
             SinEstado(coleccion'[k]) = SinEstado(coleccion[k])
       /\ EstadoActualizado =>
             /\ guardado # <<>>
             /\ \A k \in 1..Len(coleccion) :
                   coleccion'[k] # coleccion[k] =>
                      coleccion[k].id = guardado[1].cambios[guardado[1].i].id
             /\ Cardinality({k \in 1..Len(coleccion) :
                               coleccion'[k] # coleccion[k]}) = 1]_vars

\* C21 witness: two cases stored, the first moved to EN SEGUIMIENTO with
\* its verdict, tier and alert date as created, the second still REGISTRADO.
C21_Witness ==
    /\ Len(coleccion) = 2
    /\ coleccion[1].Estado = "EN SEGUIMIENTO"
    /\ coleccion[1].Gravedad = "SEVERA"
    /\ Nivel(coleccion[1].Riesgo) = "ALTO RIESGO"
    /\ coleccion[1].FechaAlerta = 1
    /\ coleccion[2].Estado = "REGISTRADO"

\* handleSave reaches its end in this step.
GuardadoTermina ==
    \/ guardado # <<>> /\ guardado' = <<>>
    \/ /\ guardado = <<>> /\ guardado' = <<>>
       /\ changedStates # <<>> /\ changedStates' = <<>>

\* The pending change handleSave is sending in the state of locals g names a
\* case of the alertas the handler holds, with another Estado there.
EnviaCambioReal(g) ==
    \E k \in 1..Len(g.originales) :
        /\ g.originales[k].id = g.cambios[g.i].id
        /\ g.originales[k].Estado # g.cambios[g.i].newState

\* C27: a status update is sent only for a pending change of handleSave
\* whose status differs from the Estado of that case in the alertas the
\* handler holds, one update at a time; when handleSave ends the pending
\* changes are empty and isSaving is false, after a success and after a
\* failure; a step in which an update fails leaves the collection as it was.
C27_SaveOnlyChangedThenClear ==
    [][/\ EstadoActualizado =>
             /\ guardado # <<>>
             /\ LET g == guardado[1]
                IN  /\ EnviaCambioReal(g)
                    /\ coleccion' =
                          conEstado(coleccion, g.cambios[g.i].id,
                                    g.cambios[g.i].newState)
       /\ (guardado' # <<>>) =>
             /\ isSaving'
             /\ EnviaCambioReal(guardado'[1])
       /\ GuardadoTermina => (changedStates' = <<>> /\ ~isSaving')
       /\ (guardado' = <<>>) => ~isSaving'
       /\ (error' = msgErrorActualizar /\ error # error') =>
             coleccion' = coleccion]_vars

\* C27 witness: handleSave has ended after a failed update: the failure is
\* reported, the pending changes are empty, isSaving is false and the case is
\* still REGISTRADO.
C27_Witness ==
    /\ error = msgFalloActualizar
    /\ changedStates = <<>>
    /\ ~isSaving
    /\ guardado = <<>>
    /\ Len(coleccion) = 1
    /\ coleccion[1].Estado = "REGISTRADO"

====
